---- MODULE Spec2Model ----
(***************************************************************************)
(* A model of wl-scanner (src/wl-scanner.go, lines 1-769): the generator   *)
(* that turns a decoded Wayland protocol document into Go bindings for the *)
(* client or the server side.                                              *)
(*                                                                         *)
(* Go strings that the program takes apart or builds character by          *)
(* character (interface, request, event and argument names, the generated  *)
(* identifiers) are sequences of one-character strings.  Fixed words that  *)
(* are only compared or copied (wire type tags, Go basic types, decode     *)
(* method texts) are TLA+ strings.  A rendered template is a record that   *)
(* holds every value the template prints, in the order it prints them.     *)
(***************************************************************************)
EXTENDS Integers, Sequences, FiniteSets, TLC

(***************************************************************************)
(* Bounds of the model.                                                    *)
(***************************************************************************)
MaxIfaces == 2
MaxMsgs == 2
MaxArgs == 2
MaxNameLen == 3

(***************************************************************************)
(* package strings, unicode: the library functions the program calls.      *)
(***************************************************************************)
LowerChars == <<"a","b","c","d","e","f","g","h","i","j","k","l","m",
                "n","o","p","q","r","s","t","u","v","w","x","y","z">>
UpperChars == <<"A","B","C","D","E","F","G","H","I","J","K","L","M",
                "N","O","P","Q","R","S","T","U","V","W","X","Y","Z">>
DigitChars == <<"0","1","2","3","4","5","6","7","8","9">>

IndexOf(seq, c) == CHOOSE i \in 1..Len(seq) : seq[i] = c
InSeq(seq, c) == \E i \in 1..Len(seq) : seq[i] = c

\* unicode.ToTitle / unicode.ToLower on the ASCII range
ToTitle(c) == IF InSeq(LowerChars, c) THEN UpperChars[IndexOf(LowerChars, c)] ELSE c
ToLowerChar(c) == IF InSeq(UpperChars, c) THEN LowerChars[IndexOf(UpperChars, c)] ELSE c

\* strings.isSeparator: ASCII letters, digits and underscore are not separators
IsSeparator(c) == ~(InSeq(LowerChars, c) \/ InSeq(UpperChars, c) \/ InSeq(DigitChars, c) \/ c = "_")

HasPrefix(s, p) == Len(s) >= Len(p) /\ SubSeq(s, 1, Len(p)) = p
HasSuffix(s, p) == Len(s) >= Len(p) /\ SubSeq(s, Len(s) - Len(p) + 1, Len(s)) = p
TrimPrefix(s, p) == IF HasPrefix(s, p) THEN SubSeq(s, Len(p) + 1, Len(s)) ELSE s
TrimSuffix(s, p) == IF HasSuffix(s, p) THEN SubSeq(s, 1, Len(s) - Len(p)) ELSE s

\* strings.Replace(s, old, new, -1) for one-character old and new
ReplaceChar(s, old, new) == [i \in 1..Len(s) |-> IF s[i] = old THEN new ELSE s[i]]
\* strings.Replace(s, old, "", -1) for a one-character old
RemoveChar(s, old) == SelectSeq(s, LAMBDA c : c # old)

\* strings.Title: the first letter of every word is mapped to title case; a
\* word starts at the beginning and after every separator
Title(s) == [i \in 1..Len(s) |->
               IF i = 1 \/ IsSeparator(s[i - 1]) THEN ToTitle(s[i]) ELSE s[i]]
ToLower(s) == [i \in 1..Len(s) |-> ToLowerChar(s[i])]

\* strings.Split(s, sep) for a one-character sep: always at least one part
RECURSIVE SplitFrom(_, _, _, _)
SplitFrom(s, sep, i, cur) ==
    IF i > Len(s) THEN <<cur>>
    ELSE IF s[i] = sep THEN <<cur>> \o SplitFrom(s, sep, i + 1, <<>>)
    ELSE SplitFrom(s, sep, i + 1, Append(cur, s[i]))
Split(s, sep) == SplitFrom(s, sep, 1, <<>>)

\* strings.Join(parts, sep)
RECURSIVE Join(_, _)
Join(parts, sep) ==
    IF Len(parts) = 0 THEN <<>>
    ELSE IF Len(parts) = 1 THEN parts[1]
    ELSE parts[1] \o sep \o Join(Tail(parts), sep)

(***************************************************************************)
(* The fixed tables of the program.                                        *)
(***************************************************************************)
\* wlTypes: wire type tag -> Go type; the domain is the set of basic tags
wlTypes == [int |-> "int32", uint |-> "uint32", string |-> "string",
            fd |-> "uintptr", fixed |-> "float32", array |-> "[]int32"]

\* bufTypesMap: Go type -> the decode method of the event buffer
bufTypesMap == ("int32" :> "Int32()") @@ ("uint32" :> "Uint32()") @@
               ("string" :> "String()") @@ ("float32" :> "Float32()") @@
               ("[]int32" :> "Array()") @@ ("uintptr" :> "FD()")

\* the interfaces of the base protocol that other protocols refer to
inheritedNames == <<
       <<"w","l","_","d","i","s","p","l","a","y">>,
       <<"w","l","_","r","e","g","i","s","t","r","y">>,
       <<"w","l","_","c","a","l","l","b","a","c","k">>,
       <<"w","l","_","c","o","m","p","o","s","i","t","o","r">>,
       <<"w","l","_","s","h","m","_","p","o","o","l">>,
       <<"w","l","_","s","h","m">>,
       <<"w","l","_","b","u","f","f","e","r">>,
       <<"w","l","_","d","a","t","a","_","o","f","f","e","r">>,
       <<"w","l","_","d","a","t","a","_","s","o","u","r","c","e">>,
       <<"w","l","_","d","a","t","a","_","d","e","v","i","c","e">>,
       <<"w","l","_","d","a","t","a","_","d","e","v","i","c","e","_","m","a","n","a","g","e","r">>,
       <<"w","l","_","s","h","e","l","l">>,
       <<"w","l","_","s","h","e","l","l","_","s","u","r","f","a","c","e">>,
       <<"w","l","_","s","u","r","f","a","c","e">>,
       <<"w","l","_","s","e","a","t">>,
       <<"w","l","_","p","o","i","n","t","e","r">>,
       <<"w","l","_","k","e","y","b","o","a","r","d">>,
       <<"w","l","_","t","o","u","c","h">>,
       <<"w","l","_","o","u","t","p","u","t">>,
       <<"w","l","_","r","e","g","i","o","n">>,
       <<"w","l","_","s","u","b","c","o","m","p","o","s","i","t","o","r">>,
       <<"w","l","_","s","u","b","s","u","r","f","a","c","e">> >>

(***************************************************************************)
(* The state of one run.                                                   *)
(***************************************************************************)
VARIABLES
    protocol,      \* the decoded document: [Name, Interfaces]
    side,          \* flag -side
    pkgName,       \* flag -pkg
    unstable,      \* flag -unstable
    wlNames,       \* map: wire interface name -> Go identifier
    wlPrefix,      \* "" or "wl."
    trimPrefix,    \* the prefix CamelCase strips
    ifTrimSuffix,  \* the suffix stripUnstable strips
    fileBuffer,    \* the fragments written so far, in order
    goIface,       \* the GoInterface of the current loop iteration
    idx,           \* index of the current interface in either loop of main
    pc,            \* position in main
    outFile,       \* the destination file: [exists, open, content]
    status         \* "running", "exit0" or "exit1"

vars == <<protocol, side, pkgName, unstable, wlNames, wlPrefix, trimPrefix,
          ifTrimSuffix, fileBuffer, goIface, idx, pc, outFile, status>>

inputs == <<protocol, side, pkgName, unstable>>

WlWord == <<"w","l">>
WlUnderscore == <<"w","l","_">>
WlDot == <<"w","l",".">>
ProxyWord == <<"P","r","o","x","y">>
IfaceWord == <<"i","f","a","c","e">>
InterfaceWord == <<"i","n","t","e","r","f","a","c","e">>
VersionWord == <<"v","e","r","s","i","o","n">>

(***************************************************************************)
(* Names.                                                                  *)
(***************************************************************************)
\* func CamelCase, reading the package variable trimPrefix
CamelCase(wlName) ==
    LET trimmed == TrimPrefix(wlName, trimPrefix)
        spaced == ReplaceChar(trimmed, "_", " ")
        titled == Title(spaced)
    IN  RemoveChar(titled, " ")

\* strings.Title of one part of snakeCase
TitleParts(parts) == [i \in 1..Len(parts) |-> IF i = 1 THEN parts[i] ELSE Title(parts[i])]

\* func snakeCase
snakeCase(wlName) ==
    LET trimmed == IF HasPrefix(wlName, WlUnderscore)
                   THEN TrimPrefix(wlName, WlUnderscore) ELSE wlName
        spaced == ReplaceChar(trimmed, "_", " ")
        parts == Split(spaced, " ")
    IN  Join(TitleParts(parts), <<>>)

\* a stripUnstable that never strips
stripUnstableNever(ifname) == ifname

\* func stripUnstable, reading the package variable ifTrimSuffix
stripUnstable(ifname) == TrimSuffix(ifname, ifTrimSuffix)

\* a read of the map wlNames: Go yields "" for a key that is not there
Lookup(names, key) == IF key \in DOMAIN names THEN names[key] ELSE <<>>

\* func caseAndRegister: the map after wlNames[orj] = CamelCase(orj)
caseAndRegister(names, wlName) ==
    [k \in DOMAIN names \cup {wlName} |->
        IF k = wlName THEN CamelCase(wlName) ELSE names[k]]

\* main, lines 220-224: the map with the base protocol's interfaces
InheritedMap ==
    [k \in {inheritedNames[i] : i \in 1..Len(inheritedNames)} |-> WlDot \o CamelCase(k)]

(***************************************************************************)
(* Go type texts: a basic type word, or an identifier with or without a    *)
(* leading "*".  NoType is the empty text.                                 *)
(***************************************************************************)
BasicT(word) == [basic |-> word, ptr |-> FALSE, id |-> <<>>]
PtrT(ident) == [basic |-> "", ptr |-> TRUE, id |-> ident]
NamedT(ident) == [basic |-> "", ptr |-> FALSE, id |-> ident]
NoType == BasicT("")

\* wlTypes[tag]: Go yields "" for a tag that is not in the map
WlType(tag) == IF tag \in DOMAIN wlTypes THEN BasicT(wlTypes[tag]) ELSE NoType

\* texts that stand in a parameter list or in the argument list of SendRequest
Decl(name, type) == [kind |-> "decl", name |-> name, type |-> type]
Expr(name) == [kind |-> "expr", name |-> name, type |-> NoType]
ProxyRet(prefix) == [kind |-> "proxyret", name |-> prefix, type |-> NoType]

\* the package prefix of a dotted identifier, and its last component
Components(ident) == Split(ident, ".")
PrefixOf(ident) ==
    LET components == Components(ident)
    IN  IF Len(components) > 1
        THEN Join(SubSeq(components, 1, Len(components) - 1), <<".">>) \o <<".">>
        ELSE <<>>
LastOf(ident) == LET components == Components(ident) IN components[Len(components)]

(***************************************************************************)
(* GoInterface.ProcessRequests: the outbound bindings.                     *)
(***************************************************************************)
\* the accumulators of one iteration of the outer loop, before any argument
ReqStart == [returns |-> <<>>, params |-> <<>>, sendRequestArgs |-> <<>>,
             HasNewId |-> FALSE, NewIdInterface |-> <<>>, Prefix |-> <<>>]

\* the parameter name of an argument (lines 383-388)
ParamName(arg) == IF arg.Name = InterfaceWord THEN IfaceWord ELSE arg.Name

\* one iteration of the loop over the arguments (lines 382-426)
ReqArg(acc, arg) ==
    LET name == ParamName(arg) IN
    IF arg.Type = "new_id" THEN
        IF arg.Interface # <<>> THEN
            LET newIdIface == Lookup(wlNames, stripUnstable(arg.Interface)) IN
            [acc EXCEPT !.NewIdInterface = LastOf(newIdIface),
                        !.Prefix = PrefixOf(newIdIface),
                        !.sendRequestArgs = Append(acc.params, ProxyRet(wlPrefix)),
                        !.HasNewId = TRUE,
                        !.returns = Append(acc.returns, PtrT(newIdIface))]
        ELSE
            [acc EXCEPT !.sendRequestArgs = acc.sendRequestArgs \o
                            <<Expr(IfaceWord), Expr(VersionWord), Expr(name)>>,
                        !.params = acc.params \o
                            <<Decl(IfaceWord, BasicT("string")),
                              Decl(VersionWord, BasicT("uint32")),
                              Decl(name, NamedT(wlPrefix \o ProxyWord))>>]
    ELSE IF arg.Type = "object" /\ arg.Interface # <<>> THEN
        LET paramTypeName == Lookup(wlNames, stripUnstable(arg.Interface)) IN
        [acc EXCEPT !.params = Append(acc.params, Decl(name, PtrT(paramTypeName))),
                    !.sendRequestArgs = Append(acc.sendRequestArgs, Expr(name))]
    ELSE
        [acc EXCEPT !.sendRequestArgs = Append(acc.sendRequestArgs, Expr(name)),
                    !.params = Append(acc.params, Decl(name, WlType(arg.Type)))]

RECURSIVE ReqArgs(_, _)
ReqArgs(acc, args) ==
    IF Len(args) = 0 THEN acc ELSE ReqArgs(ReqArg(acc, Head(args)), Tail(args))

\* the GoRequest built for the entry at index order (lines 374-438).  Params,
\* Args and Returns are kept as the lists that the code joins with ","; the
\* Summary and Description fields hold documentation only and are left out.
BuildRequest(i, order, wlReq) ==
    LET acc == ReqArgs(ReqStart, wlReq.Args) IN
    [Name |-> CamelCase(wlReq.Name),
     IfaceName |-> stripUnstable(i.Name),
     Order |-> order,
     Params |-> acc.params,
     Args |-> acc.sendRequestArgs,
     Returns |-> acc.returns,
     HasNewId |-> acc.HasNewId,
     NewIdInterface |-> acc.NewIdInterface,
     Prefix |-> acc.Prefix]

\* a loop over the entries that counts them from 1
BuildRequestsFromOne(i, roe) == [k \in 1..Len(roe) |-> BuildRequest(i, k, roe[k])]

\* range roe: order runs from 0
BuildRequests(i, roe) == [k \in 1..Len(roe) |-> BuildRequest(i, k - 1, roe[k])]

(***************************************************************************)
(* GoInterface.ProcessEvents: the inbound bindings.                        *)
(***************************************************************************)
\* a decode expression: its text pattern, the type it asserts (NoType when it
\* asserts none) and, for a constructor call, the package prefix and the
\* interface identifier
Buf(op, assert, prefix, ctor) ==
    [op |-> op, assert |-> assert, prefix |-> prefix, ctor |-> ctor]
NoBuf == Buf("", NoType, <<>>, <<>>)

\* lines 463-482: an argument of a basic type
BasicArg(goarg, t) ==
    LET bufMethod == bufTypesMap[t]
        method == IF t \notin DOMAIN bufTypesMap THEN NoBuf
                  ELSE IF bufMethod = "FD()"
                       THEN Buf("p.Context().NextFD()", NoType, <<>>, <<>>)
                       ELSE Buf("event." \o bufMethod, NoType, <<>>, <<>>)
    IN  [goarg EXCEPT !.BufMethod = method, !.Type = BasicT(t), !.BasicType = TRUE]

\* a ProcessEvents that decodes a new_id as under client whatever the side
IfaceArgOnRoleBlind(s, goarg, arg) ==
    LET ident == Lookup(wlNames, stripUnstable(arg.Interface)) IN
    IF arg.Type \in {"new_id", "object"} /\ arg.Interface # <<>> THEN
        [goarg EXCEPT !.Type = PtrT(ident),
                      !.BufMethod = Buf("event.Proxy(p.Context()).(T)",
                                        PtrT(ident), <<>>, <<>>)]
    ELSE
        [goarg EXCEPT !.Type = NamedT(wlPrefix \o ProxyWord),
                      !.BufMethod = Buf("event.Proxy(p.Context())", NoType, wlPrefix, <<>>)]

\* lines 483-511: an argument of an interface type, when the flag -side is s
IfaceArgOn(s, goarg, arg) ==
    LET ident == Lookup(wlNames, stripUnstable(arg.Interface)) IN
    IF arg.Type = "new_id" /\ s = "server" /\ arg.Interface # <<>> THEN
        [goarg EXCEPT !.Type = PtrT(ident),
                      !.BufMethod = Buf("New(p.Context(), int(event.Uint32()))",
                                        NoType, PrefixOf(ident), LastOf(ident))]
    ELSE IF arg.Type = "new_id" /\ arg.Interface # <<>> THEN
        [goarg EXCEPT !.Type = PtrT(ident),
                      !.BufMethod = Buf("event.Proxy(p.Context()).(T)",
                                        PtrT(ident), <<>>, <<>>)]
    ELSE IF arg.Type = "object" /\ arg.AllowNull = FALSE /\ arg.Interface # <<>> THEN
        [goarg EXCEPT !.Type = PtrT(ident),
                      !.BufMethod = Buf("event.Proxy(p.Context()).(T)",
                                        PtrT(ident), <<>>, <<>>)]
    ELSE IF arg.Type = "object" /\ arg.AllowNull = TRUE /\ arg.Interface # <<>> THEN
        [goarg EXCEPT !.Type = PtrT(ident),
                      !.BufMethod = Buf("event.Proxy(p.Context())", NoType, <<>>, <<>>),
                      !.SnakeName = ToLower(goarg.Name)]
    ELSE
        [goarg EXCEPT !.Type = NamedT(wlPrefix \o ProxyWord),
                      !.BufMethod = Buf("event.Proxy(p.Context())", NoType, wlPrefix, <<>>)]

\* the GoArg of one argument (lines 457-513), when the flag -side is s
BuildArgOn(s, arg) ==
    LET goarg == [Name |-> CamelCase(arg.Name), PName |-> snakeCase(arg.Name),
                  AllowNull |-> arg.AllowNull, Type |-> NoType, BufMethod |-> NoBuf,
                  BasicType |-> FALSE, SnakeName |-> <<>>]
    IN  IF arg.Type \in DOMAIN wlTypes
        THEN BasicArg(goarg, wlTypes[arg.Type])
        ELSE IfaceArgOn(s, goarg, arg)

\* the GoArg of one argument under the flag of this run
BuildArg(arg) == BuildArgOn(side, arg)

\* the GoEvent of one entry (lines 448-514)
BuildEvent(i, wlEv) ==
    [Name |-> CamelCase(wlEv.Name),
     PName |-> snakeCase(wlEv.Name),
     IfaceName |-> i.Name,
     WL |-> wlPrefix,
     EName |-> i.Name \o CamelCase(wlEv.Name),
     Args |-> [k \in 1..Len(wlEv.Args) |-> BuildArg(wlEv.Args[k])]]

BuildEvents(i, roes) == [k \in 1..Len(roes) |-> BuildEvent(i, roes[k])]

\* lines 530-541: the GoEnum of one enum
BuildEnum(i, wlEnum) ==
    [Name |-> CamelCase(wlEnum.Name),
     IfaceName |-> i.Name,
     Entries |-> [k \in 1..Len(wlEnum.Entries) |->
                    [Name |-> CamelCase(wlEnum.Entries[k].Name),
                     Value |-> wlEnum.Entries[k].Value]]]

(***************************************************************************)
(* The templates.  Each operator gives what executeTemplate writes for one *)
(* data value: a record of the values the template prints.                 *)
(***************************************************************************)
\* a type template whose lock depends on .Requests
ifaceTypeTemplateLockOnRequests(i) ==
    [kind |-> "type", Name |-> i.Name, WL |-> i.WL,
     mu |-> Len(i.Requests) > 0,
     handlers |-> [k \in 1..Len(i.Events) |->
                     [PName |-> i.Events[k].PName, EName |-> i.Events[k].EName]]]

\* ifaceTypeTemplate: the struct, its lock and one handler list per event
ifaceTypeTemplate(i) ==
    [kind |-> "type", Name |-> i.Name, WL |-> i.WL,
     mu |-> Len(i.Events) > 0,
     handlers |-> [k \in 1..Len(i.Events) |->
                     [PName |-> i.Events[k].PName, EName |-> i.Events[k].EName]]]

\* ifaceConstructorTemplate: New<Name>(ctx)
ifaceConstructorTemplate(i) ==
    [kind |-> "constructor", Name |-> i.Name, WL |-> i.WL,
     params |-> <<"ctx">>, register |-> "Register"]

\* ifaceConstructorTemplateId: New<Name>(ctx, id)
ifaceConstructorTemplateId(i) ==
    [kind |-> "constructor", Name |-> i.Name, WL |-> i.WL,
     params |-> <<"ctx", "id">>, register |-> "RegisterId"]

\* ifaceAddRemoveHandlerTemplate
ifaceAddRemoveHandlerTemplate(ev) ==
    [kind |-> "handlers", IfaceName |-> ev.IfaceName, Name |-> ev.Name,
     EName |-> ev.EName, PName |-> ev.PName]

\* requestTemplate: the method, the constructor call of its body when the
\* request has a new id, and the SendRequest call with the opcode
requestTemplate(req) ==
    [kind |-> "request", IfaceName |-> req.IfaceName, Name |-> req.Name,
     params |-> IF req.HasNewId
                THEN req.Params \o <<Decl(<<"i","d">>, BasicT("int"))>>
                ELSE req.Params,
     Returns |-> req.Returns,
     hasCtorCall |-> req.HasNewId,
     ctorPrefix |-> IF req.HasNewId THEN req.Prefix ELSE <<>>,
     ctorName |-> IF req.HasNewId THEN req.NewIdInterface ELSE <<>>,
     ctorArgs |-> IF req.HasNewId THEN <<"p.Context()", "id">> ELSE <<>>,
     opcode |-> req.Order,
     sendArgs |-> req.Args]

\* eventTemplate: the payload struct and the handler interface
eventTemplate(ev) ==
    [kind |-> "event", IfaceName |-> ev.IfaceName, Name |-> ev.Name,
     EName |-> ev.EName,
     fields |-> [k \in 1..Len(ev.Args) |->
                   [Name |-> ev.Args[k].Name, Type |-> ev.Args[k].Type]]]

\* a dispatch template without the branch on .AllowNull
DispatchArgUnguarded(a) ==
    [guarded |-> FALSE, temp |-> <<>>, decode |-> a.BufMethod,
     field |-> a.Name, convert |-> NoType]

\* lines 702-711: the decode of one argument inside a case
DispatchArg(a) ==
    IF ~a.BasicType /\ a.AllowNull
    THEN [guarded |-> TRUE, temp |-> a.SnakeName, decode |-> a.BufMethod,
          field |-> a.Name, convert |-> a.Type]
    ELSE [guarded |-> FALSE, temp |-> <<>>, decode |-> a.BufMethod,
          field |-> a.Name, convert |-> NoType]

\* ifaceDispatchTemplate: one case per element of .Events, keyed by its index
ifaceDispatchTemplate(i) ==
    [kind |-> "dispatch", Name |-> i.Name, WL |-> i.WL,
     cases |-> [k \in 1..Len(i.Events) |->
                  [opcode |-> k - 1,
                   PName |-> i.Events[k].PName,
                   Name |-> i.Events[k].Name,
                   EName |-> i.Events[k].EName,
                   args |-> [n \in 1..Len(i.Events[k].Args) |->
                               DispatchArg(i.Events[k].Args[n])]]]]

\* ifaceEnums: one constant per entry
ifaceEnums(goEnum) ==
    [kind |-> "enum", IfaceName |-> goEnum.IfaceName, Name |-> goEnum.Name,
     consts |-> goEnum.Entries]

\* main, lines 238-252: the file header
Header(t) ==
    [kind |-> "header", pkg |-> pkgName, protocol |-> protocol.Name,
     time |-> t, importWl |-> pkgName # WlWord]

RECURSIVE Flatten(_)
Flatten(seqs) == IF Len(seqs) = 0 THEN <<>> ELSE Head(seqs) \o Flatten(Tail(seqs))

(***************************************************************************)
(* main.                                                                   *)
(***************************************************************************)
Ifaces == protocol.Interfaces

\* main, lines 261-291: the list handed to ProcessEvents and the list handed
\* to ProcessRequests under the selected side
\* a main that hands the events to ProcessEvents under either side
InboundListUnswapped(iface) == iface.Events

InboundList(iface) == IF side = "client" THEN iface.Events ELSE iface.Requests
OutboundList(iface) == IF side = "client" THEN iface.Requests ELSE iface.Events

\* a GoInterface that is declared outside the loop and keeps its lists
NewGoInterfaceKept(iface) ==
    [goIface EXCEPT !.Name = Lookup(wlNames, stripUnstable(iface.Name)),
                    !.WL = wlPrefix, !.WlInterface = iface]

\* lines 255-259
NewGoInterface(iface) ==
    [Name |-> Lookup(wlNames, stripUnstable(iface.Name)),
     WL |-> wlPrefix,
     WlInterface |-> iface,
     Requests |-> <<>>, Events |-> <<>>, Enums |-> <<>>]

NoGoInterface ==
    [Name |-> <<>>, WL |-> <<>>,
     WlInterface |-> [Name |-> <<>>, Requests |-> <<>>, Events |-> <<>>, Enums |-> <<>>],
     Requests |-> <<>>, Events |-> <<>>, Enums |-> <<>>]

\* the GoInterface after ProcessEvents(roes) and what the call writes
AfterEvents(i, roes) == [i EXCEPT !.Events = i.Events \o BuildEvents(i, roes)]
EventsOutput(i, roes) ==
    LET evs == BuildEvents(i, roes)
        after == AfterEvents(i, roes)
    IN  Flatten([k \in 1..Len(evs) |->
                    <<eventTemplate(evs[k]), ifaceAddRemoveHandlerTemplate(evs[k])>>])
        \o (IF Len(after.Events) > 0 THEN <<ifaceDispatchTemplate(after)>> ELSE <<>>)

\* a Constructor that executes the constructor template first
ConstructorOutputCtorFirst(i) ==
    <<IF side = "client" THEN ifaceConstructorTemplate(i)
                         ELSE ifaceConstructorTemplateId(i),
      ifaceTypeTemplate(i)>>

\* what Constructor writes
ConstructorOutput(i) ==
    <<ifaceTypeTemplate(i),
      IF side = "client" THEN ifaceConstructorTemplate(i)
                         ELSE ifaceConstructorTemplateId(i)>>

\* the GoInterface after ProcessRequests(roe) and what the call writes
AfterRequests(i, roe) == [i EXCEPT !.Requests = i.Requests \o BuildRequests(i, roe)]
RequestsOutput(i, roe) ==
    LET reqs == BuildRequests(i, roe)
    IN  [k \in 1..Len(reqs) |-> requestTemplate(reqs[k])]

\* what ProcessEnums writes
EnumsOutput(i) ==
    [k \in 1..Len(i.WlInterface.Enums) |-> ifaceEnums(BuildEnum(i, i.WlInterface.Enums[k]))]

\* a registration loop that is left after its first iteration
RegistrationDoneEarly == idx > 1

\* the loop of lines 234-236 has run over every interface
RegistrationDone == idx > Len(Ifaces)

\* the readings of the clock (time.Now, line 244)
Times == {"t1", "t2"}

(***************************************************************************)
(* The inputs: the documents and the flags a run may be given.             *)
(***************************************************************************)
MaxEnums == 1

Arg(name, type, interface, allowNull) ==
    [Name |-> name, Type |-> type, Interface |-> interface, AllowNull |-> allowNull]
Msg(name, args) == [Name |-> name, Args |-> args]
EnumAt(k) ==
    [Name |-> <<"e","_", DigitChars[k + 1]>>,
     Entries |-> <<[Name |-> <<"o","f","f">>, Value |-> "0"],
                   [Name |-> <<"o","n">>, Value |-> "1"]>>]

ReqNameAt(k) == <<"d","o","_", DigitChars[k + 1]>>
EvNameAt(k) == <<"o","n","_", DigitChars[k + 1]>>
ArgNameAt(k) == <<"a","_", DigitChars[k + 1]>>
IfaceNameAt(j) ==
    IF j = 1 THEN <<"w","l","_","a","_","b">>
    ELSE IF j = 2 THEN <<"x","_","b","_","v">>
    ELSE <<"x","_", LowerChars[j]>>

Sides == {"client", "server"}
PkgNames == {WlWord, <<"x">>}
UnstableTokens == {<<>>, <<"v">>}
ProtocolNames == {"wayland", "xdg_shell"}

\* Documents that vary in shape: up to MaxIfaces interfaces, each with up to
\* MaxMsgs requests and events (the two counts swap from one interface to the
\* next) and up to MaxEnums enums; the entries carry no arguments.
ShapeIface(j, nReq, nEv, nEnum) ==
    [Name |-> IfaceNameAt(j),
     Requests |-> [k \in 1..nReq |-> Msg(ReqNameAt(k), <<>>)],
     Events |-> [k \in 1..nEv |-> Msg(EvNameAt(k), <<>>)],
     Enums |-> [k \in 1..nEnum |-> EnumAt(k)]]
ShapeDocs ==
    {[j \in 1..n |-> IF j % 2 = 1 THEN ShapeIface(j, a, b, e) ELSE ShapeIface(j, b, a, e)] :
        n \in 1..MaxIfaces, a \in 0..MaxMsgs, b \in 0..MaxMsgs, e \in 0..MaxEnums}

\* Documents that vary in their arguments: the interface wl_m declares one
\* request and one event with the same argument list; the arguments refer to
\* no interface, to x_t_v, which the document declares after wl_m, before
\* it, or not at all, or to wl_seat of the base protocol, which the document
\* does not declare.  These runs are given the unstable token v.
MainName == <<"w","l","_","m">>
TargetName == <<"x","_","t","_","v">>
BasicTags == {"int", "uint", "string", "fd", "fixed", "array"}
BaseName == <<"w","l","_","s","e","a","t">>
ArgKinds ==
    {Arg(<<>>, t, <<>>, FALSE) : t \in BasicTags \cup {"bogus"}}
    \cup {Arg(<<>>, t, r, n) : t \in {"object", "new_id"}, r \in {<<>>, TargetName},
                               n \in BOOLEAN}
    \cup {Arg(<<>>, t, BaseName, FALSE) : t \in {"object", "new_id"}}
CoreArgKinds ==
    {Arg(<<>>, "uint", <<>>, FALSE), Arg(<<>>, "object", TargetName, FALSE),
     Arg(<<>>, "object", TargetName, TRUE), Arg(<<>>, "new_id", TargetName, FALSE),
     Arg(<<>>, "new_id", <<>>, FALSE)}
Named(kinds) == [k \in 1..Len(kinds) |-> [kinds[k] EXCEPT !.Name = ArgNameAt(k)]]
ArgLists ==
    {<<>>} \cup {Named(<<a>>) : a \in ArgKinds}
    \cup {Named(l) : l \in UNION {[1..n -> CoreArgKinds] : n \in 2..MaxArgs}}
MainIface(args) ==
    [Name |-> MainName,
     Requests |-> <<Msg(ReqNameAt(0), args)>>,
     Events |-> <<Msg(EvNameAt(0), args)>>,
     Enums |-> <<>>]
TargetIface == [Name |-> TargetName, Requests |-> <<>>, Events |-> <<>>, Enums |-> <<>>]
ArgDocs ==
    UNION {{<<MainIface(l)>>, <<MainIface(l), TargetIface>>, <<TargetIface, MainIface(l)>>} :
            l \in ArgLists}

\* Documents that vary in the name of their one interface: every name of up
\* to MaxNameLen characters over a small alphabet, and the names of the
\* examples.
NameAlphabet == {"w", "l", "_", "v"}
ShortNames == UNION {[1..n -> NameAlphabet] : n \in 1..MaxNameLen}
ExampleNames ==
    {<<"w","l","_","s","h","m","_","p","o","o","l">>,
     <<"x","d","g","_","s","u","r","f","a","c","e">>,
     <<"x","d","g","_","s","u","r","f","a","c","e","_","v","6">>}
NameDoc(name) == <<[Name |-> name, Requests |-> <<>>, Events |-> <<>>, Enums |-> <<>>]>>

\* The document of the example: the interface demo_thing with the request
\* do_stuff(x: uint) and the event done(result: uint), and no enum.
DemoThing == <<"d","e","m","o","_","t","h","i","n","g">>
DoStuff == <<"d","o","_","s","t","u","f","f">>
DoneName == <<"d","o","n","e">>
ResultName == <<"r","e","s","u","l","t">>
DemoDoc ==
    <<[Name |-> DemoThing,
       Requests |-> <<Msg(DoStuff, <<Arg(<<"x">>, "uint", <<>>, FALSE)>>)>>,
       Events |-> <<Msg(DoneName, <<Arg(ResultName, "uint", <<>>, FALSE)>>)>>,
       Enums |-> <<>>]>>

\* Documents with two interfaces whose names differ and are close to one
\* another.
CloseNames ==
    {<<"w","l","_","v">>, <<"v">>, <<"v","_","v">>, <<"w","l","_","_","v">>,
     <<"w","l","_","l">>, <<"l">>}
PairDocs ==
    {NameDoc(p[1]) \o NameDoc(p[2]) : p \in {q \in CloseNames \X CloseNames : q[1] # q[2]}}

InitState(doc, protoName, s, pkg, u) ==
    /\ protocol = [Name |-> protoName, Interfaces |-> doc]
    /\ side = s
    /\ pkgName = pkg
    /\ unstable = u
    /\ wlNames = [k \in {} |-> <<>>]
    /\ wlPrefix = <<>>
    /\ trimPrefix = WlUnderscore
    /\ ifTrimSuffix = <<>>
    /\ fileBuffer = <<>>
    /\ goIface = NoGoInterface
    /\ idx = 1
    /\ pc = "config"
    /\ outFile = [exists |-> FALSE, open |-> FALSE, content |-> <<>>]
    /\ status = "running"

InitShapes ==
    \E doc \in ShapeDocs, s \in Sides, pkg \in PkgNames, u \in UnstableTokens :
        InitState(doc, "wayland", s, pkg, u)
InitArgs ==
    \E doc \in ArgDocs, p \in ProtocolNames, s \in Sides, pkg \in PkgNames :
        InitState(doc, p, s, pkg, <<"v">>)
InitNames ==
    \/ \E name \in ShortNames, pkg \in {WlWord, <<"v">>}, u \in UnstableTokens :
          InitState(NameDoc(name), "wayland", "client", pkg, u)
    \/ \E name \in ExampleNames, pkg \in {WlWord, <<"x","d","g">>},
          u \in {<<>>, <<"v","6">>} :
          InitState(NameDoc(name), "wayland", "client", pkg, u)

InitPairs ==
    \E doc \in PairDocs, pkg \in {WlWord, <<"v">>}, u \in UnstableTokens :
        InitState(doc, "wayland", "client", pkg, u)
InitDemo ==
    \E p \in ProtocolNames, s \in Sides, pkg \in PkgNames, u \in UnstableTokens :
        InitState(DemoDoc, p, s, pkg, u)

\* the state when main has parsed its flags and decoded the document
Init == InitShapes \/ InitArgs \/ InitNames \/ InitPairs \/ InitDemo

(***************************************************************************)
(* The steps of main.                                                      *)
(***************************************************************************)
\* lines 217-231
Configure ==
    /\ pc = "config"
    /\ wlNames' = IF protocol.Name # "wayland" THEN InheritedMap ELSE [k \in {} |-> <<>>]
    /\ wlPrefix' = IF pkgName # WlWord THEN WlDot ELSE <<>>
    /\ trimPrefix' = IF pkgName # WlWord THEN pkgName \o <<"_">> ELSE trimPrefix
    /\ ifTrimSuffix' = IF unstable # <<>> THEN <<"_">> \o unstable ELSE ifTrimSuffix
    /\ idx' = 1
    /\ pc' = "register"
    /\ UNCHANGED <<inputs, fileBuffer, goIface, outFile, status>>

\* lines 234-236, one iteration
Register ==
    /\ pc = "register"
    /\ idx <= Len(Ifaces)
    /\ wlNames' = caseAndRegister(wlNames, stripUnstable(Ifaces[idx].Name))
    /\ idx' = idx + 1
    /\ UNCHANGED <<inputs, wlPrefix, trimPrefix, ifTrimSuffix, fileBuffer, goIface,
                   pc, outFile, status>>

\* lines 238-252, with the reading of the clock
WriteHeader ==
    /\ pc = "register"
    /\ RegistrationDone
    /\ \E t \in Times : fileBuffer' = Append(fileBuffer, Header(t))
    /\ idx' = 1
    /\ pc' = "iface"
    /\ UNCHANGED <<inputs, wlNames, wlPrefix, trimPrefix, ifTrimSuffix, goIface,
                   outFile, status>>

\* lines 254-259: the next interface of the second loop
BeginInterface ==
    /\ pc = "iface"
    /\ idx <= Len(Ifaces)
    /\ goIface' = NewGoInterface(Ifaces[idx])
    /\ pc' = "events"
    /\ UNCHANGED <<inputs, wlNames, wlPrefix, trimPrefix, ifTrimSuffix, fileBuffer,
                   idx, outFile, status>>

\* lines 272 and 287: goIface.ProcessEvents
ProcessEvents ==
    /\ pc = "events"
    /\ goIface' = AfterEvents(goIface, InboundList(goIface.WlInterface))
    /\ fileBuffer' = fileBuffer \o EventsOutput(goIface, InboundList(goIface.WlInterface))
    /\ pc' = "constructor"
    /\ UNCHANGED <<inputs, wlNames, wlPrefix, trimPrefix, ifTrimSuffix, idx,
                   outFile, status>>

\* lines 273 and 288: goIface.Constructor
Constructor ==
    /\ pc = "constructor"
    /\ fileBuffer' = fileBuffer \o ConstructorOutput(goIface)
    /\ pc' = "requests"
    /\ UNCHANGED <<inputs, wlNames, wlPrefix, trimPrefix, ifTrimSuffix, goIface, idx,
                   outFile, status>>

\* a ProcessRequests whose lookups register the names they do not find
ProcessRequestsRegistering ==
    /\ pc = "requests"
    /\ goIface' = AfterRequests(goIface, OutboundList(goIface.WlInterface))
    /\ fileBuffer' = fileBuffer \o RequestsOutput(goIface, OutboundList(goIface.WlInterface))
    /\ pc' = "enums"
    /\ LET roe == OutboundList(goIface.WlInterface)
           refs == UNION {{stripUnstable(roe[k].Args[n].Interface) :
                              n \in {m \in 1..Len(roe[k].Args) :
                                         roe[k].Args[m].Interface # <<>>}} :
                          k \in 1..Len(roe)}
       IN  wlNames' = [k \in DOMAIN wlNames \cup refs |->
                         IF k \in DOMAIN wlNames THEN wlNames[k] ELSE CamelCase(k)]
    /\ UNCHANGED <<inputs, wlPrefix, trimPrefix, ifTrimSuffix, idx, outFile, status>>

\* lines 274 and 289: goIface.ProcessRequests
ProcessRequests ==
    /\ pc = "requests"
    /\ goIface' = AfterRequests(goIface, OutboundList(goIface.WlInterface))
    /\ fileBuffer' = fileBuffer \o RequestsOutput(goIface, OutboundList(goIface.WlInterface))
    /\ pc' = "enums"
    /\ UNCHANGED <<inputs, wlNames, wlPrefix, trimPrefix, ifTrimSuffix, idx,
                   outFile, status>>

\* lines 275 and 290: goIface.ProcessEnums, and the end of the loop body
ProcessEnums ==
    /\ pc = "enums"
    /\ fileBuffer' = fileBuffer \o EnumsOutput(goIface)
    /\ idx' = idx + 1
    /\ pc' = "iface"
    /\ UNCHANGED <<inputs, wlNames, wlPrefix, trimPrefix, ifTrimSuffix, goIface,
                   outFile, status>>

\* the number of templates the call at pc executes
TemplatesAt(p) ==
    IF p = "events" THEN Len(EventsOutput(goIface, InboundList(goIface.WlInterface)))
    ELSE IF p = "constructor" THEN Len(ConstructorOutput(goIface))
    ELSE IF p = "requests" THEN Len(RequestsOutput(goIface, OutboundList(goIface.WlInterface)))
    ELSE IF p = "enums" THEN Len(EnumsOutput(goIface))
    ELSE 0

\* executeTemplate, lines 321-324: Execute returns an error and log.Fatal ends
\* the process.  What the buffer held is lost with the process.
TemplateFatal ==
    /\ pc \in {"events", "constructor", "requests", "enums"}
    /\ TemplatesAt(pc) > 0
    /\ pc' = "fatal"
    /\ status' = "exit1"
    /\ UNCHANGED <<inputs, wlNames, wlPrefix, trimPrefix, ifTrimSuffix, fileBuffer,
                   goIface, idx, outFile>>

\* an output file that is created once the first interface is processed
LoopDoneEarly == idx > 1

\* the loop of lines 254-292 has run over every interface
LoopDone == idx > Len(Ifaces)

\* lines 294-298: os.Create, which may fail
CreateOutput ==
    /\ pc = "iface"
    /\ LoopDone
    /\ \E ok \in BOOLEAN :
         IF ok
         THEN /\ outFile' = [exists |-> TRUE, open |-> TRUE, content |-> <<>>]
              /\ pc' = "write"
              /\ status' = status
         ELSE /\ outFile' = outFile
              /\ pc' = "fatal"
              /\ status' = "exit1"
    /\ UNCHANGED <<inputs, wlNames, wlPrefix, trimPrefix, ifTrimSuffix, fileBuffer,
                   goIface, idx>>

\* line 299: fileBuffer.WriteTo(out) drains the buffer into the file
WriteOutput ==
    /\ pc = "write"
    /\ outFile' = [outFile EXCEPT !.content = outFile.content \o fileBuffer]
    /\ fileBuffer' = <<>>
    /\ pc' = "fmt"
    /\ UNCHANGED <<inputs, wlNames, wlPrefix, trimPrefix, ifTrimSuffix, goIface, idx,
                   status>>

\* lines 300 and 597-609: fmtFile, then the return of main with its deferred
\* out.Close().  "nogo": exec.LookPath fails and fmtFile returns; "ok": go fmt
\* runs (it changes layout only); "failed": cmd.Run fails and log.Fatalf ends
\* the process, so the deferred call does not run.
fmtFile ==
    /\ pc = "fmt"
    /\ \E outcome \in {"nogo", "ok", "failed"} :
         IF outcome = "failed"
         THEN /\ pc' = "fatal"
              /\ status' = "exit1"
              /\ outFile' = outFile
         ELSE /\ pc' = "done"
              /\ status' = "exit0"
              /\ outFile' = [outFile EXCEPT !.open = FALSE]
    /\ UNCHANGED <<inputs, wlNames, wlPrefix, trimPrefix, ifTrimSuffix, fileBuffer,
                   goIface, idx>>

Next ==
    \/ Configure
    \/ Register
    \/ WriteHeader
    \/ BeginInterface
    \/ ProcessEvents
    \/ Constructor
    \/ ProcessRequests
    \/ ProcessEnums
    \/ TemplateFatal
    \/ CreateOutput
    \/ WriteOutput
    \/ fmtFile

Spec == Init /\ [][Next]_vars

(***************************************************************************)
(* What the properties below speak about.                                  *)
(***************************************************************************)
Range(seq) == {seq[k] : k \in 1..Len(seq)}

\* every fragment generated so far, in the buffer or already in the file
Emitted == outFile.content \o fileBuffer

\* main is in its second loop or past it
Generating == pc \notin {"config", "register"}

\* the Go identifier of the j-th interface of the document
Ident(j) == Lookup(wlNames, stripUnstable(Ifaces[j].Name))

\* the call of ProcessRequests (ProcessEvents) for the j-th interface has returned
OutboundDone(j) == Generating /\ (j < idx \/ (j = idx /\ pc = "enums"))
InboundDone(j) ==
    Generating /\ (j < idx \/ (j = idx /\ pc \in {"constructor", "requests", "enums"}))

\* the methods and the dispatch routines generated for the j-th interface
MethodsOf(j) ==
    SelectSeq(Emitted, LAMBDA f : f.kind = "request" /\ f.IfaceName = stripUnstable(Ident(j)))
DispatchesOf(j) ==
    SelectSeq(Emitted, LAMBDA f : f.kind = "dispatch" /\ f.Name = Ident(j))

\* the list that is outbound (inbound) under the side of this run, read off
\* the document
ActiveOutbound(j) == IF side = "client" THEN Ifaces[j].Requests ELSE Ifaces[j].Events
ActiveInbound(j) == IF side = "client" THEN Ifaces[j].Events ELSE Ifaces[j].Requests

(***************************************************************************)
(* C1.  For every interface and either side, the Nth entry (from 0) of the *)
(* outbound list is generated as a method that sends opcode N, and the     *)
(* dispatch routine has exactly one case per inbound entry, keyed 0..k-1   *)
(* in declaration order, with no case of an earlier interface.             *)
(***************************************************************************)
C1_OpcodeIsDeclarationIndex ==
    \A j \in 1..Len(Ifaces) :
        /\ OutboundDone(j) =>
               /\ Len(MethodsOf(j)) = Len(ActiveOutbound(j))
               /\ \A n \in 1..Len(MethodsOf(j)) :
                     /\ MethodsOf(j)[n].opcode = n - 1
                     /\ MethodsOf(j)[n].Name = CamelCase(ActiveOutbound(j)[n].Name)
        /\ InboundDone(j) =>
               /\ Len(DispatchesOf(j)) = (IF Len(ActiveInbound(j)) > 0 THEN 1 ELSE 0)
               /\ \A d \in Range(DispatchesOf(j)) :
                     /\ Len(d.cases) = Len(ActiveInbound(j))
                     /\ \A n \in 1..Len(d.cases) :
                           /\ d.cases[n].opcode = n - 1
                           /\ d.cases[n].Name = CamelCase(ActiveInbound(j)[n].Name)

\* the second interface of a document is processed, and both interfaces
\* have two outbound and two inbound entries
C1_Witness ==
    /\ pc = "enums" /\ idx = 2
    /\ Len(ActiveOutbound(1)) = 2 /\ Len(ActiveInbound(1)) = 2
    /\ Len(MethodsOf(2)) = 2
    /\ \E d \in Range(DispatchesOf(2)) : Len(d.cases) = 2

(***************************************************************************)
(* C5.  The output file is neither created nor written before every        *)
(* interface of the document has been processed, and a run that a template *)
(* failure ends inside the loop leaves no output file.                     *)
(***************************************************************************)
C5_NoOutputBeforeAllProcessed ==
    /\ (outFile.exists \/ outFile.content # <<>>) =>
           /\ idx > Len(Ifaces)
           /\ \A j \in 1..Len(Ifaces) :
                 \E f \in Range(Emitted) : f.kind = "type" /\ f.Name = Ident(j)
    /\ (pc = "fatal" /\ idx <= Len(Ifaces)) =>
           (~outFile.exists /\ outFile.content = <<>> /\ status = "exit1")

\* a template fails while the second interface is processed, after the
\* fragments of the first went to the buffer
C5_Witness ==
    /\ pc = "fatal" /\ idx = 2 /\ Len(Ifaces) = 2
    /\ \E f \in Range(fileBuffer) : f.kind = "type"
    /\ ~outFile.exists

(***************************************************************************)
(* C7.  While any interface is processed, every interface of the document  *)
(* is registered; so an argument that refers to an interface of the        *)
(* document gets the identifier derived from that interface's name,        *)
(* whether the interface is declared before or after the reference.        *)
(***************************************************************************)
AllRegistered == \A j \in 1..Len(Ifaces) : stripUnstable(Ifaces[j].Name) \in DOMAIN wlNames
DeclaredNames == {Ifaces[j].Name : j \in 1..Len(Ifaces)}
RefersToDeclared(a) ==
    a.Type \in {"object", "new_id"} /\ a.Interface # <<>> /\ a.Interface \in DeclaredNames

C7_RegisteredBeforeResolved ==
    /\ pc \in {"iface", "events", "constructor", "requests", "enums"} => AllRegistered
    /\ pc \in {"constructor", "requests", "enums"} =>
           \A k \in 1..Len(goIface.Events) :
               \A n \in 1..Len(goIface.Events[k].Args) :
                   LET a == ActiveInbound(idx)[k].Args[n] IN
                   RefersToDeclared(a) =>
                       goIface.Events[k].Args[n].Type = PtrT(CamelCase(stripUnstable(a.Interface)))
    /\ pc = "enums" =>
           \A k \in 1..Len(goIface.Requests) :
               \A a \in Range(ActiveOutbound(idx)[k].Args) :
                   (RefersToDeclared(a) /\ a.Type = "object") =>
                       Decl(ParamName(a), PtrT(CamelCase(stripUnstable(a.Interface))))
                           \in Range(goIface.Requests[k].Params)

\* the first interface is processed and one of its arguments refers to the
\* interface that the document declares second
C7_Witness ==
    /\ pc = "enums" /\ idx = 1 /\ Len(Ifaces) = 2
    /\ Len(ActiveInbound(1)) > 0 /\ Len(goIface.Events) > 0
    /\ \E a \in Range(ActiveInbound(1)[1].Args) :
          a.Type = "object" /\ a.Interface = Ifaces[2].Name
    /\ \E a \in Range(goIface.Events[1].Args) : a.Type.ptr /\ a.Type.id # <<>>

(***************************************************************************)
(* The arguments of the document and what they refer to.                   *)
(***************************************************************************)
KnownTags == {"int", "uint", "string", "fd", "fixed", "array", "object", "new_id"}

\* every entry of the document, with the interface that declares it
EntriesOfDoc ==
    UNION {{<<j, m>> : m \in Range(Ifaces[j].Requests) \cup Range(Ifaces[j].Events)} :
            j \in 1..Len(Ifaces)}

\* the argument names an interface
NamesInterface(a) == a.Type \in {"object", "new_id"} /\ a.Interface # <<>>

\* no interface of the document has this name, and it was not registered
\* beforehand (main, lines 220-224)
Undeclared(name) ==
    /\ \A j \in 1..Len(Ifaces) : stripUnstable(Ifaces[j].Name) # stripUnstable(name)
    /\ ~(protocol.Name # "wayland" /\ stripUnstable(name) \in Range(inheritedNames))

(***************************************************************************)
(* C2.  When an argument of type object refers to an interface name that   *)
(* no interface of the document declares and that was not registered       *)
(* beforehand, the run fails and no output is produced.                    *)
(***************************************************************************)
C2_UnresolvedObjectAborts ==
    (/\ Generating
     /\ \E e \in EntriesOfDoc : \E a \in Range(e[2].Args) :
           a.Type = "object" /\ a.Interface # <<>> /\ Undeclared(a.Interface))
    => (status # "exit0" /\ outFile.content = <<>>)

(***************************************************************************)
(* C3.  When the wire type tag of an argument is none of int, uint,        *)
(* string, fd, fixed, array, object, new_id, the run aborts, whether the   *)
(* argument stands in an outbound or an inbound entry, and no binding is   *)
(* generated for the argument.                                             *)
(***************************************************************************)
C3_UnknownWireTypeAborts ==
    Generating =>
        \A e \in EntriesOfDoc : \A a \in Range(e[2].Args) :
            a.Type \notin KnownTags =>
                /\ status # "exit0"
                /\ outFile.content = <<>>
                /\ \A f \in Range(Emitted) :
                      /\ (f.kind = "request" /\ f.Name = CamelCase(e[2].Name)) =>
                             \A p \in Range(f.params) : p.name # ParamName(a)
                      /\ (f.kind = "event" /\ f.Name = CamelCase(e[2].Name)) =>
                             \A fld \in Range(f.fields) : fld.Name # CamelCase(a.Name)

(***************************************************************************)
(* C4.  Two runs given the same document, the same side and the same       *)
(* flags write the same file, whatever the clock reads in either run.      *)
(***************************************************************************)
\* what the loop body of main writes for one interface
IfaceOutput(iface) ==
    LET i0 == NewGoInterface(iface)
        i1 == AfterEvents(i0, InboundList(iface))
    IN  EventsOutput(i0, InboundList(iface)) \o ConstructorOutput(i1)
        \o RequestsOutput(i1, OutboundList(iface)) \o EnumsOutput(i1)

\* the file of a run on the inputs of this run whose clock reads t
FileAt(t) == <<Header(t)>> \o Flatten([j \in 1..Len(Ifaces) |-> IfaceOutput(Ifaces[j])])

C4_Deterministic == pc = "done" => \A t \in Times : outFile.content = FileAt(t)

(***************************************************************************)
(* C8.  Every argument of type object or new_id that names an interface    *)
(* resolves to one identifier that is not empty, is the same wherever the  *)
(* interface is referred to (outbound parameter, outbound return type,     *)
(* inbound payload field, constructor call) and is the identifier under    *)
(* which the interface's own type is declared.                             *)
(***************************************************************************)
\* id is a proper identifier for the interface of this wire name
ResolvedAs(name, id) ==
    /\ id # <<>>
    /\ \A j \in 1..Len(Ifaces) : Ifaces[j].Name = name => id = Ident(j)

C8_OneIdentifierEverywhere ==
    pc = "enums" =>
        /\ \A k \in 1..Len(goIface.Events) : \A n \in 1..Len(goIface.Events[k].Args) :
              LET a == ActiveInbound(idx)[k].Args[n]
                  g == goIface.Events[k].Args[n]
              IN  NamesInterface(a) =>
                      /\ ResolvedAs(a.Interface, g.Type.id)
                      /\ g.BufMethod.ctor # <<>> =>
                             ResolvedAs(a.Interface, g.BufMethod.prefix \o g.BufMethod.ctor)
        /\ \A k \in 1..Len(goIface.Requests) : \A a \in Range(ActiveOutbound(idx)[k].Args) :
              LET r == goIface.Requests[k] IN
              /\ (NamesInterface(a) /\ a.Type = "object") =>
                     \E p \in Range(r.Params) :
                         p.name = ParamName(a) /\ ResolvedAs(a.Interface, p.type.id)
              /\ (NamesInterface(a) /\ a.Type = "new_id") =>
                     /\ \E t \in Range(r.Returns) : ResolvedAs(a.Interface, t.id)
                     /\ ResolvedAs(a.Interface, r.Prefix \o r.NewIdInterface)

(***************************************************************************)
(* C6.  For every interface, the outbound bindings under client and the    *)
(* inbound bindings under server are built from the requests, and the      *)
(* inbound bindings under client and the outbound bindings under server    *)
(* from the events: same entry names, same opcodes, same arguments.  The   *)
(* binding of an inbound argument depends on the side only for a new_id    *)
(* argument with an interface, and there only in its decode expression.    *)
(***************************************************************************)
NotNewId(args) == SelectSeq(args, LAMBDA a : a.Type # "new_id")
TypedNewId(a) == a.Type = "new_id" /\ a.Interface # <<>>

\* the outbound bindings reqs are built from the declared list: entry by
\* entry the same name and opcode, and the arguments that are not new_id are
\* the parameters that carry their names, in the same order
OutboundFrom(reqs, list) ==
    /\ Len(reqs) = Len(list)
    /\ \A k \in 1..Len(reqs) :
          /\ reqs[k].Name = CamelCase(list[k].Name)
          /\ reqs[k].Order = k - 1
          /\ LET wanted == [n \in 1..Len(NotNewId(list[k].Args)) |->
                              ParamName(NotNewId(list[k].Args)[n])]
                 given == [n \in 1..Len(reqs[k].Params) |-> reqs[k].Params[n].name]
             IN  SelectSeq(given, LAMBDA nm : nm \in Range(wanted)) = wanted

\* the inbound bindings evs are built from the declared list: entry by entry
\* the same name (the opcode is the position) and one field per argument
InboundFrom(evs, list) ==
    /\ Len(evs) = Len(list)
    /\ \A k \in 1..Len(evs) :
          /\ evs[k].Name = CamelCase(list[k].Name)
          /\ [n \in 1..Len(evs[k].Args) |-> evs[k].Args[n].Name]
                 = [n \in 1..Len(list[k].Args) |-> CamelCase(list[k].Args[n].Name)]

C6_RoleSymmetry ==
    /\ pc = "enums" =>
          /\ side = "client" =>
                 /\ OutboundFrom(goIface.Requests, Ifaces[idx].Requests)
                 /\ InboundFrom(goIface.Events, Ifaces[idx].Events)
          /\ side = "server" =>
                 /\ InboundFrom(goIface.Events, Ifaces[idx].Requests)
                 /\ OutboundFrom(goIface.Requests, Ifaces[idx].Events)
    /\ pc = "events" =>
          \A e \in EntriesOfDoc : \A a \in Range(e[2].Args) :
              LET c == BuildArgOn("client", a)
                  s == BuildArgOn("server", a)
              IN  IF TypedNewId(a)
                  THEN [c EXCEPT !.BufMethod = s.BufMethod] = s
                  ELSE c = s

\* under server, an interface whose request and event carry a new_id with an
\* interface next to another argument has been processed
C6_Witness ==
    /\ pc = "enums" /\ side = "server"
    /\ Len(goIface.Requests) > 0 /\ Len(goIface.Events) > 0
    /\ goIface.Events[1].Name = CamelCase(Ifaces[idx].Requests[1].Name)
    /\ \E a \in Range(Ifaces[idx].Requests[1].Args) : TypedNewId(a)
    /\ \E a \in Range(Ifaces[idx].Requests[1].Args) : a.Type = "uint"
    /\ \E g \in Range(goIface.Events[1].Args) : g.BufMethod.ctor # <<>>

(***************************************************************************)
(* C9.  The identifier registered for the wire name of an interface: the   *)
(* name without the suffix "_" + token when a token is configured and the  *)
(* name ends so, then without the package prefix (wl_ by default) when it  *)
(* starts so, split at the underscores, every segment capitalised, and the *)
(* segments joined.  As stated first, the token alone is the suffix.       *)
(***************************************************************************)
ConfiguredPrefix == IF pkgName = WlWord THEN WlUnderscore ELSE pkgName \o <<"_">>
Capitalised(seg) == IF seg = <<>> THEN <<>> ELSE <<ToTitle(seg[1])>> \o Tail(seg)
Segments(name) == Split(name, "_")
Derived(suffix, name) ==
    LET s1 == IF unstable # <<>> /\ HasSuffix(name, suffix)
              THEN SubSeq(name, 1, Len(name) - Len(suffix)) ELSE name
        s2 == IF HasPrefix(s1, ConfiguredPrefix)
              THEN SubSeq(s1, Len(ConfiguredPrefix) + 1, Len(s1)) ELSE s1
    IN  Join([k \in 1..Len(Segments(s2)) |-> Capitalised(Segments(s2)[k])], <<>>)

WlShmPool == <<"w","l","_","s","h","m","_","p","o","o","l">>
XdgSurfaceV6 == <<"x","d","g","_","s","u","r","f","a","c","e","_","v","6">>
XdgSurface == <<"x","d","g","_","s","u","r","f","a","c","e">>

C9_IdentifierDerivation ==
    Generating =>
        \A j \in 1..Len(Ifaces) :
            /\ Ident(j) = Derived(<<"_">> \o unstable, Ifaces[j].Name)
            /\ (Ifaces[j].Name = WlShmPool /\ pkgName = WlWord) =>
                   Ident(j) = <<"S","h","m","P","o","o","l">>
            /\ (Ifaces[j].Name = XdgSurfaceV6 /\ unstable = <<"v","6">>) =>
                   Ident(j) = CamelCase(XdgSurface)

\* the claim as stated: the token itself is removed from the end of the name
C9_TokenIsSuffix ==
    Generating => \A j \in 1..Len(Ifaces) : Ident(j) = Derived(unstable, Ifaces[j].Name)

\* xdg_surface_v6 is registered with prefix xdg_ and token v6
C9_Witness ==
    /\ Generating
    /\ Ifaces[1].Name = XdgSurfaceV6 /\ unstable = <<"v","6">> /\ pkgName = <<"x","d","g">>
    /\ Ident(1) = <<"S","u","r","f","a","c","e">>

(***************************************************************************)
(* C10.  In the dispatch routine a nullable inbound argument of type       *)
(* object is decoded into a temporary without a type assertion and         *)
(* converted to its type only inside the branch taken when the temporary   *)
(* is not nil; an inbound argument of type object that is not nullable is  *)
(* decoded outside any branch, with an assertion of its reference type     *)
(* when it names an interface and as an opaque proxy when it names none.   *)
(***************************************************************************)
\* the decode of the n-th argument of the k-th case, with its declaration
DecodedObjects ==
    UNION {UNION {{[a |-> ActiveInbound(idx)[k].Args[n],
                    g |-> goIface.Events[k].Args[n],
                    item |-> d.cases[k].args[n]] :
                       n \in {m \in 1..Len(d.cases[k].args) :
                                  ActiveInbound(idx)[k].Args[m].Type = "object"}} :
                  k \in 1..Len(d.cases)} :
           d \in Range(DispatchesOf(idx))}

NullableDecode(x) ==
    x.a.AllowNull =>
        /\ x.item.guarded
        /\ x.item.decode.assert = NoType
        /\ x.item.convert = x.g.Type /\ x.item.convert # NoType

InheritedRefs ==
    UNION {{[a |-> ActiveInbound(idx)[k].Args[n], g |-> goIface.Events[k].Args[n]] :
               n \in {m \in 1..Len(goIface.Events[k].Args) :
                          /\ NamesInterface(ActiveInbound(idx)[k].Args[m])
                          /\ ActiveInbound(idx)[k].Args[m].Interface \in Range(inheritedNames)}} :
           k \in 1..Len(goIface.Events)}

Qualified(ident) == PrefixOf(ident) # <<>>

C11_QualifiedIffForeignPackage ==
    pc \in {"constructor", "requests", "enums"} =>
        \A x \in InheritedRefs :
            x.g.Type.id # <<>> => (Qualified(x.g.Type.id) <=> pkgName # WlWord)

(***************************************************************************)
(* C12.  For every interface and either side the fragments are written in  *)
(* one order: the payload type and the handler registration of each        *)
(* inbound entry, the dispatch routine, the type declaration, the          *)
(* constructor, the methods, the enum constants.  As stated first, the     *)
(* order is: type declaration, constructor, payload types and handler      *)
(* registration, methods, dispatch routine, enum constants.                *)
(***************************************************************************)
\* the kind of a fragment and the interface identifier it is written for
Tagged(f) ==
    <<f.kind, IF f.kind \in {"type", "constructor", "dispatch"} THEN f.Name ELSE f.IfaceName>>

\* the fragments written after the header, each with its kind and owner
TaggedBody == [p \in 1..(Len(Emitted) - 1) |-> Tagged(Emitted[p + 1])]

\* the parts of the fragments of the j-th interface, read off the document
PayloadPart(j) ==
    Flatten([k \in 1..Len(ActiveInbound(j)) |-> <<<<"event", Ident(j)>>, <<"handlers", Ident(j)>>>>])
DispatchPart(j) == IF Len(ActiveInbound(j)) > 0 THEN <<<<"dispatch", Ident(j)>>>> ELSE <<>>
TypePart(j) == <<<<"type", Ident(j)>>, <<"constructor", Ident(j)>>>>
MethodPart(j) == [k \in 1..Len(ActiveOutbound(j)) |-> <<"request", stripUnstable(Ident(j))>>]
EnumPart(j) == [k \in 1..Len(Ifaces[j].Enums) |-> <<"enum", Ident(j)>>]

\* main is between two iterations of its second loop, or past the loop
BetweenInterfaces == pc \in {"iface", "write", "fmt", "done"}

C12_FragmentOrder ==
    BetweenInterfaces =>
        /\ Emitted[1].kind = "header"
        /\ TaggedBody = Flatten([j \in 1..(idx - 1) |->
               PayloadPart(j) \o DispatchPart(j) \o TypePart(j) \o MethodPart(j) \o EnumPart(j)])

\* the claim as stated
C12_StatedOrder ==
    BetweenInterfaces =>
        /\ Emitted[1].kind = "header"
        /\ TaggedBody = Flatten([j \in 1..(idx - 1) |->
               TypePart(j) \o PayloadPart(j) \o MethodPart(j) \o DispatchPart(j) \o EnumPart(j)])

\* two interfaces are processed, each with inbound and outbound entries and
\* an enum
C12_Witness ==
    /\ pc = "iface" /\ idx = 3 /\ Len(Ifaces) = 2
    /\ \A j \in 1..2 :
          Len(ActiveInbound(j)) > 0 /\ Len(ActiveOutbound(j)) > 0 /\ Len(Ifaces[j].Enums) > 0
    /\ Len(TaggedBody) > 10

(***************************************************************************)
(* C13.  On every path on which the process ends after the output file was *)
(* created, the file has been closed, also when the formatter step fails.  *)
(***************************************************************************)
C13_ClosedOnEveryExit ==
    (status # "running" /\ outFile.exists) => ~outFile.open

(***************************************************************************)
(* C14.  Every outbound binding returns either one object reference and an *)
(* error or an error alone, and the former exactly when the binding is     *)
(* flagged as having a new id, however many new_id arguments the entry has *)
(* and wherever they stand.                                                *)
(***************************************************************************)
C14_ReturnShape ==
    pc = "enums" =>
        \A r \in Range(goIface.Requests) :
            /\ Len(r.Returns) \in {0, 1}
            /\ Len(r.Returns) = 1 <=> r.HasNewId

(***************************************************************************)
(* C15.  A new_id argument without an interface needs no entry of the      *)
(* table: in an outbound entry it gives the three parameters iface string, *)
(* version uint32 and an opaque Proxy under the argument's name, and the   *)
(* three arguments iface, version and the name are passed to SendRequest;  *)
(* in an inbound entry it is bound as an opaque Proxy.                     *)
(***************************************************************************)
UntypedNewId(a) == a.Type = "new_id" /\ a.Interface = <<>>

\* run stands in seq as one stretch
HasRun(seq, run) ==
    \E p \in 0..(Len(seq) - Len(run)) : SubSeq(seq, p + 1, p + Len(run)) = run

OpaqueParams(a) ==
    <<Decl(IfaceWord, BasicT("string")), Decl(VersionWord, BasicT("uint32")),
      Decl(ParamName(a), NamedT(wlPrefix \o ProxyWord))>>
OpaqueArgs(a) == <<Expr(IfaceWord), Expr(VersionWord), Expr(ParamName(a))>>

C15_UntypedNewIdAccepted ==
    /\ pc = "enums" =>
          \A k \in 1..Len(goIface.Requests) : \A a \in Range(ActiveOutbound(idx)[k].Args) :
              UntypedNewId(a) =>
                  /\ HasRun(goIface.Requests[k].Params, OpaqueParams(a))
                  /\ HasRun(goIface.Requests[k].Args, OpaqueArgs(a))
    /\ pc \in {"constructor", "requests", "enums"} =>
          \A k \in 1..Len(goIface.Events) : \A n \in 1..Len(goIface.Events[k].Args) :
              UntypedNewId(ActiveInbound(idx)[k].Args[n]) =>
                  LET g == goIface.Events[k].Args[n] IN
                  /\ g.Type = NamedT(wlPrefix \o ProxyWord)
                  /\ g.BufMethod.op = "event.Proxy(p.Context())"
                  /\ g.BufMethod.assert = NoType /\ g.BufMethod.ctor = <<>>

(***************************************************************************)
(* C16.  An inbound new_id argument that names an interface is decoded,    *)
(* under server, by a call of the constructor of that interface with the   *)
(* context and an identifier read from the message as a uint32, and, under *)
(* client, as the proxy read from the message, asserted to be a reference  *)
(* to the type of that interface.                                          *)
(***************************************************************************)
\* the inbound arguments of the current interface that are new_id and name
\* an interface, each with its binding
InboundTypedNewIds ==
    UNION {{[a |-> ActiveInbound(idx)[k].Args[n], g |-> goIface.Events[k].Args[n]] :
               n \in {m \in 1..Len(goIface.Events[k].Args) :
                          TypedNewId(ActiveInbound(idx)[k].Args[m])}} :
           k \in 1..Len(goIface.Events)}

\* the identifier of the declared interface that the argument names
ReferredIdent(a) == CamelCase(stripUnstable(a.Interface))

C16_NewIdDecodeByRole ==
    pc \in {"constructor", "requests", "enums"} =>
        \A x \in InboundTypedNewIds :
            LET ident == Lookup(wlNames, stripUnstable(x.a.Interface)) IN
            /\ x.g.Type = PtrT(ident)
            /\ ~x.g.BasicType
            /\ RefersToDeclared(x.a) => ident = ReferredIdent(x.a)
            /\ side = "server" =>
                   /\ x.g.BufMethod.op = "New(p.Context(), int(event.Uint32()))"
                   /\ x.g.BufMethod.prefix \o x.g.BufMethod.ctor = ident
                   /\ x.g.BufMethod.assert = NoType
            /\ side = "client" =>
                   /\ x.g.BufMethod.op = "event.Proxy(p.Context()).(T)"
                   /\ x.g.BufMethod.assert = PtrT(ident)
                   /\ x.g.BufMethod.ctor = <<>>

\* under server a new_id that names a declared interface is decoded by the
\* constructor of that interface
C16_Witness ==
    /\ pc = "constructor" /\ side = "server"
    /\ \E x \in InboundTypedNewIds :
          /\ RefersToDeclared(x.a)
          /\ x.g.BufMethod.ctor = ReferredIdent(x.a) /\ x.g.BufMethod.ctor # <<>>

(***************************************************************************)
(* C17.  The document with the one interface demo_thing, the request       *)
(* do_stuff(x: uint) and the event done(result: uint).  Under client the   *)
(* output has the type DemoThing, its constructor, the method DoStuff with *)
(* the one parameter x uint32 that returns an error only and sends opcode  *)
(* 0, the payload type DemoThingDoneEvent with one uint32 field, and a     *)
(* dispatch routine with the one case 0 that decodes this field.  Under    *)
(* server the method is Done and the case is that of do_stuff, both with   *)
(* opcode 0.                                                               *)
(***************************************************************************)
DemoThingId == <<"D","e","m","o","T","h","i","n","g">>
DoStuffId == <<"D","o","S","t","u","f","f">>
DoneId == <<"D","o","n","e">>
ResultId == <<"R","e","s","u","l","t">>
EventWord == <<"E","v","e","n","t">>

OfKind(kind) == SelectSeq(Emitted, LAMBDA f : f.kind = kind)

\* the output has one method, named method, with the one parameter param of
\* type uint32, and one payload type and one dispatch case for the entry
\* named entry with the one field named field
DemoOutput(method, param, entry, field) ==
    /\ Len(OfKind("type")) = 1 /\ OfKind("type")[1].Name = DemoThingId
    /\ Len(OfKind("constructor")) = 1 /\ OfKind("constructor")[1].Name = DemoThingId
    /\ Len(OfKind("enum")) = 0
    /\ Len(OfKind("request")) = 1
    /\ LET r == OfKind("request")[1] IN
          /\ r.IfaceName = DemoThingId /\ r.Name = method
          /\ r.params = <<Decl(param, BasicT("uint32"))>>
          /\ r.Returns = <<>> /\ ~r.hasCtorCall
          /\ r.opcode = 0
          /\ r.sendArgs = <<Expr(param)>>
    /\ Len(OfKind("event")) = 1
    /\ LET e == OfKind("event")[1] IN
          /\ e.IfaceName \o e.Name \o EventWord = DemoThingId \o entry \o EventWord
          /\ e.fields = <<[Name |-> field, Type |-> BasicT("uint32")]>>
    /\ Len(OfKind("dispatch")) = 1
    /\ LET d == OfKind("dispatch")[1] IN
          /\ d.Name = DemoThingId
          /\ Len(d.cases) = 1
          /\ d.cases[1].opcode = 0 /\ d.cases[1].Name = entry
          /\ Len(d.cases[1].args) = 1
          /\ d.cases[1].args[1].field = field
          /\ d.cases[1].args[1].decode.op = "event.Uint32()"
          /\ ~d.cases[1].args[1].guarded

C17_DemoThing ==
    (Ifaces = DemoDoc /\ pc \in {"write", "fmt", "done"}) =>
        /\ side = "client" => DemoOutput(DoStuffId, <<"x">>, DoneId, ResultId)
        /\ side = "server" => DemoOutput(DoneId, ResultName, DoStuffId, <<"X">>)

\* the run on the example's document under server has written its file
C17_Witness ==
    /\ Ifaces = DemoDoc /\ pc = "done" /\ side = "server"
    /\ Len(outFile.content) = 7
    /\ \E f \in Range(outFile.content) : f.kind = "request" /\ f.Name = DoneId

(***************************************************************************)
(* C18.  The arguments passed to SendRequest after the opcode are, in the  *)
(* order of the declaration, the marshaled expression of every argument:   *)
(* the proxy of the new object for a new_id with an interface; iface,      *)
(* version and the name for a new_id without one; the name otherwise.      *)
(* A parameter declaration is never among them, wherever the new_id with   *)
(* an interface stands.                                                    *)
(***************************************************************************)
Marshaled(a) ==
    IF TypedNewId(a) THEN <<ProxyRet(wlPrefix)>>
    ELSE IF UntypedNewId(a) THEN OpaqueArgs(a)
    ELSE <<Expr(ParamName(a))>>

C18_MarshaledArguments ==
    Generating =>
        \A f \in Range(Emitted) :
            f.kind = "request" =>
                /\ \A s \in Range(f.sendArgs) : s.kind # "decl"
                /\ \A j \in 1..Len(Ifaces) : \A k \in 1..Len(ActiveOutbound(j)) :
                      (f.IfaceName = stripUnstable(Ident(j)) /\ f.opcode = k - 1) =>
                          f.sendArgs = Flatten([n \in 1..Len(ActiveOutbound(j)[k].Args) |->
                                                   Marshaled(ActiveOutbound(j)[k].Args[n])])

(***************************************************************************)
(* C19.  Every call of a constructor that a run generates, in the body of  *)
(* a method or in a decode expression, passes the parameters of the        *)
(* constructors that the run generates: the context under client, the      *)
(* context and an identifier under server.                                 *)
(***************************************************************************)
\* the constructor call of a decode expression and its number of arguments
NewCall == "New(p.Context(), int(event.Uint32()))"
DecodeCtorArity(buf) == IF buf.op = NewCall THEN 2 ELSE 0

\* the numbers of arguments of the constructor calls generated so far
CtorCallArities ==
    {Len(f.ctorArgs) : f \in {g \in Range(Emitted) : g.kind = "request" /\ g.hasCtorCall}}
    \cup UNION {UNION {{DecodeCtorArity(f.cases[k].args[n].decode) :
                           n \in {m \in 1..Len(f.cases[k].args) :
                                      f.cases[k].args[m].decode.op = NewCall}} :
                       k \in 1..Len(f.cases)} :
                f \in {g \in Range(Emitted) : g.kind = "dispatch"}}

\* the numbers of parameters of the constructors generated so far
CtorArities == {Len(f.params) : f \in {g \in Range(Emitted) : g.kind = "constructor"}}

C19_ConstructorShapeFollowsRole ==
    Generating =>
        /\ CtorArities \subseteq {IF side = "client" THEN 1 ELSE 2}
        /\ CtorCallArities \subseteq {IF side = "client" THEN 1 ELSE 2}

(***************************************************************************)
(* C20.  After the registration loop, two interfaces of the document with  *)
(* different names have different keys in the table and different          *)
(* identifiers, whatever the package prefix and the unstable token.        *)
(***************************************************************************)
C20_DistinctIdentifiers ==
    Generating =>
        \A i, j \in 1..Len(Ifaces) :
            Ifaces[i].Name # Ifaces[j].Name =>
                /\ stripUnstable(Ifaces[i].Name) # stripUnstable(Ifaces[j].Name)
                /\ Ident(i) # Ident(j)

(***************************************************************************)
(* C21.  Every inbound argument for which the dispatch routine takes the   *)
(* branch on presence (the argument is not of a basic type and is          *)
(* nullable) has a temporary with a name that is not empty and a decode    *)
(* expression that asserts no type, whether it is an object or a new_id,   *)
(* names an interface or not, under either side.                           *)
(***************************************************************************)
\* the decodes of the dispatch routine of the current interface that stand
\* in the branch on presence
GuardedDecodes ==
    UNION {UNION {{d.cases[k].args[n] :
                      n \in {m \in 1..Len(d.cases[k].args) : d.cases[k].args[m].guarded}} :
                  k \in 1..Len(d.cases)} :
           d \in Range(DispatchesOf(idx))}

C21_GuardedDecodeWellFormed ==
    pc \in {"constructor", "requests", "enums"} =>
        \A item \in GuardedDecodes :
            /\ item.temp # <<>>
            /\ item.decode.assert = NoType

(***************************************************************************)
(* C22.  Once the registration loop has ended, no step of main changes the *)
(* table wlNames: building and writing the bindings of an interface, under *)
(* either side, adds, removes and overwrites no entry.                     *)
(***************************************************************************)
C22_TableFrozenWhileBinding == [][Generating => wlNames' = wlNames]_vars

\* the bindings of an interface whose outbound entry names an interface
\* that is not in the table are built, and the table holds the interfaces
\* of the document
C22_Witness ==
    /\ pc = "enums"
    /\ Len(goIface.Requests) > 0
    /\ \E a \in Range(ActiveOutbound(idx)[1].Args) :
          NamesInterface(a) /\ stripUnstable(a.Interface) \notin DOMAIN wlNames
    /\ DOMAIN wlNames = {stripUnstable(Ifaces[j].Name) : j \in 1..Len(Ifaces)}

(***************************************************************************)
(* C23.  For every interface and either side the inbound entries are bound *)
(* before the type declaration is written: the declaration has one handler *)
(* list per inbound entry, in the order of the declaration, and it has the *)
(* lock exactly when the interface has an inbound entry, which is exactly  *)
(* when a dispatch routine is written for the interface.                   *)
(***************************************************************************)
\* Constructor has just returned: the type declaration of the current
\* interface and the fragment written before it
CurrentType == Emitted[Len(Emitted) - 1]
BeforeCurrentType == Emitted[Len(Emitted) - 2]

\* the handler lists of an interface with these inbound entries
HandlerFields(ident, list) ==
    [k \in 1..Len(list) |->
        [PName |-> snakeCase(list[k].Name), EName |-> ident \o CamelCase(list[k].Name)]]

C23_TypeDeclarationAfterInbound ==
    pc = "requests" =>
        LET inbound == ActiveInbound(idx) IN
        /\ Len(goIface.Events) = Len(inbound)
        /\ CurrentType.kind = "type" /\ CurrentType.Name = Ident(idx)
        /\ CurrentType.handlers = HandlerFields(Ident(idx), inbound)
        /\ CurrentType.mu <=> Len(inbound) > 0
        /\ CurrentType.mu <=>
               (BeforeCurrentType.kind = "dispatch" /\ BeforeCurrentType.Name = Ident(idx))
        /\ Len(inbound) = 0 => BeforeCurrentType.kind # "dispatch"

\* the type declaration of the second interface is written with its lock
\* and two handler lists, after that of a first interface without inbound
\* entries
C23_Witness ==
    /\ pc = "requests" /\ idx = 2
    /\ Len(ActiveInbound(1)) = 0 /\ Len(ActiveInbound(2)) = 2
    /\ CurrentType.mu /\ Len(CurrentType.handlers) = 2
    /\ BeforeCurrentType.kind = "dispatch"
====
